---------------------------- MODULE Spec2Model ----------------------------
(***************************************************************************)
(* State-machine model of the two live chat servers of the repository:     *)
(*   app/tcp_live_chat_server.cpp  (stream server, thread per connection)  *)
(*   app/udp_live_chat_server.cpp  (datagram server, one receiver thread)  *)
(* One behaviour models one server: Init chooses the variant.  Every       *)
(* critical section on clientsMutex is one atomic step; the threads        *)
(* interleave between their critical sections.                             *)
(*                                                                         *)
(* A std::string is a sequence of tokens.  Text the code inspects is       *)
(* spelled character by character; a literal the code only concatenates    *)
(* is one token.                                                           *)
(***************************************************************************)
EXTENDS Integers, Sequences, FiniteSets, Bags

(***************************************************************************)
(* Bounds of the model.                                                    *)
(***************************************************************************)
MaxClients == 2
MaxTicks == 2

(***************************************************************************)
(* Program constants.                                                      *)
(***************************************************************************)
NoId == -1
TcpTimeout == 300
UdpTimeout == 120
Npos == -1

Ids == 1..MaxClients

(***************************************************************************)
(* std::string operations, with the 0-based positions of C++.              *)
(***************************************************************************)
Min(a, b) == IF a < b THEN a ELSE b

\* s.substr(pos, n)
Substr(s, pos, n) == SubSeq(s, pos + 1, Min(pos + n, Len(s)))

\* s.substr(pos)
SubstrFrom(s, pos) == SubSeq(s, pos + 1, Len(s))

\* s.find(c, pos)
Find(s, c, pos) ==
    LET hits == {i \in pos..(Len(s) - 1) : s[i + 1] = c}
    IN  IF hits = {} THEN Npos ELSE CHOOSE i \in hits : \A j \in hits : i <= j

\* s.find_first_not_of(set)
FindFirstNotOf(s, set) ==
    LET hits == {i \in 0..(Len(s) - 1) : s[i + 1] \notin set}
    IN  IF hits = {} THEN Npos ELSE CHOOSE i \in hits : \A j \in hits : i <= j

\* s.find_last_not_of(set)
FindLastNotOf(s, set) ==
    LET hits == {i \in 0..(Len(s) - 1) : s[i + 1] \notin set}
    IN  IF hits = {} THEN Npos ELSE CHOOSE i \in hits : \A j \in hits : i >= j

\* s.rfind(p, 0) == 0
StartsWith(s, p) == Len(s) >= Len(p) /\ SubSeq(s, 1, Len(p)) = p

\* s.erase(std::remove(s.begin(), s.end(), c), s.end())
EraseChar(s, c) == SelectSeq(s, LAMBDA x : x # c)

\* std::to_string of a non-negative int
Digit(d) == CASE d = 0 -> "0" [] d = 1 -> "1" [] d = 2 -> "2" [] d = 3 -> "3"
              [] d = 4 -> "4" [] d = 5 -> "5" [] d = 6 -> "6" [] d = 7 -> "7"
              [] d = 8 -> "8" [] OTHER -> "9"

RECURSIVE to_string(_)
to_string(n) == IF n < 10 THEN <<Digit(n)>>
                ELSE to_string(n \div 10) \o <<Digit(n % 10)>>

(***************************************************************************)
(* The literals of the protocol.                                           *)
(***************************************************************************)
QuitCmd == <<"/", "q", "u", "i", "t">>
UsersCmd == <<"/", "u", "s", "e", "r", "s">>
MsgPrefix == <<"/", "m", "s", "g", " ">>
RegisterPrefix == <<"R", "E", "G", "I", "S", "T", "E", "R", ":">>
HeartbeatCmd == <<"H", "E", "A", "R", "T", "B", "E", "A", "T">>

\* getTimestamp(): "[" + ctime text + "] "
getTimestamp == <<"[", "ctime", "]", " ">>

JoinedText(name) == name \o <<" has joined the chat">>
LeftText(name) == name \o <<" has left the chat">>
TimedOutText(name) == name \o <<" has timed out">>
ChatText(name, message) == name \o <<":", " ">> \o message

\* getTimestamp() + message + "\n"
BroadcastLine(message) == getTimestamp \o message \o <<"\n">>

\* For comparison: a welcome that leaves the name out.
WelcomeLine_unnamed(name) ==
    getTimestamp \o <<"Welcome to the chat, ", "!", "\n">>

WelcomeLine(name) ==
    getTimestamp \o <<"Welcome to the chat, ">> \o name \o <<"!", "\n">>

InfoLine ==
    getTimestamp \o <<"To send a private message, use: /msg <username> <message>", "\n">>

PrivateFromLine(senderUsername, message) ==
    getTimestamp \o <<"[Private from ">> \o senderUsername \o <<"]: ">>
        \o message \o <<"\n">>

PrivateToLine(targetUsername, message) ==
    getTimestamp \o <<"[Private to ">> \o targetUsername \o <<"]: ">>
        \o message \o <<"\n">>

NotFoundLine(targetUsername) ==
    getTimestamp \o <<"User ">> \o targetUsername \o <<" not found.", "\n">>

InvalidFormatLine ==
    getTimestamp \o <<"Invalid private message format. Use /msg <username> <message>", "\n">>

RegisterFirstLine == <<"Please register first with REGISTER:<username>">>

\* "Connected users:\n" followed by "- " + username + "\n" per listed session,
\* in the iteration order of the map.
RECURSIVE UserListLine(_)
UserListLine(names) ==
    IF names = <<>> THEN <<"Connected users:", "\n">>
    ELSE UserListLine(SubSeq(names, 1, Len(names) - 1))
             \o <<"- ">> \o names[Len(names)] \o <<"\n">>

(***************************************************************************)
(* Parsing of "/msg <target> <text>".                                      *)
(***************************************************************************)
\* message.find(' ', 5)
SpacePos(message) == Find(message, " ", 5)

\* message.substr(5, spacePos - 5)
TargetOf(message) == Substr(message, 5, SpacePos(message) - 5)

\* message.substr(spacePos + 1)
PrivateTextOf(message) == SubstrFrom(message, SpacePos(message) + 1)

(***************************************************************************)
(* Sanitising of names and messages.                                       *)
(***************************************************************************)
\* removeSpecialChars(username, "\n\r\0"): the std::string built from the
\* literal ends at its first NUL, so the characters removed are \n and \r.
removeSpecialChars(str) == EraseChar(EraseChar(str, "\n"), "\r")

\* The stream server's trimming of the name and its Guest fallback.
TcpTrim(username) ==
    LET start == FindFirstNotOf(username, {" ", "\t"})
        end == FindLastNotOf(username, {" ", "\t"})
    IN  IF start # Npos /\ end # Npos
        THEN Substr(username, start, end - start + 1)
        ELSE <<>>

GuestName(clientId) == <<"G", "u", "e", "s", "t">> \o to_string(clientId)

TcpResolveName(raw, clientId) ==
    LET username == TcpTrim(removeSpecialChars(raw))
    IN  IF username = <<>> THEN GuestName(clientId) ELSE username

\* The datagram server's name: the text after "REGISTER:", sanitised.
UdpResolveName(message) == removeSpecialChars(SubstrFrom(message, 9))

\* The stream server's stripping of a received message.
TcpStripMessage(message) ==
    EraseChar(EraseChar(EraseChar(message, "\n"), "\r"), "NUL")

(***************************************************************************)
(* Inputs.                                                                 *)
(***************************************************************************)
\* Raw names: a datagram may carry an empty name, a stream payload has at
\* least one byte.
UdpRawNames == { <<>>, <<"a", "\n">> }
TcpRawNames == { <<" ">>, <<"a", "\n">> }

ChatLines ==
    { QuitCmd,
      UsersCmd,
      MsgPrefix \o <<"a", " ", "h">>,
      MsgPrefix \o <<" ", "h">>,
      MsgPrefix \o <<"a">>,
      MsgPrefix,
      <<"h", "\n">> }

UdpLines ==
    ChatLines \cup {HeartbeatCmd} \cup {RegisterPrefix \o n : n \in UdpRawNames}

VARIABLES
    variant,      \* "tcp" or "udp": the server this behaviour is about
    net,          \* the socket layer under test: two sockets and what is in flight
    proc,         \* the server process: "up", "terminated", "crashed", "exited", "stopped"
    now,          \* std::time(nullptr)
    running,      \* tcp: TCPLiveChatServer::running; udp: the global running flag
    isRunning,    \* udp: UdpLiveChatServer::isRunning
    clients,      \* the clients map
    nextClientId, \* tcp: the acceptor's counter
    mutexOwner,   \* the thread that holds clientsMutex
    acceptor,     \* tcp: the accept loop's position
    worker,       \* tcp: the handleClient threads
    rx,           \* udp: the receiveMessages thread inside handleMessage
    reaper,       \* the inactivity thread of either server
    sig,          \* udp: the signal handler's position
    op,           \* the step just taken
    sent          \* the bag of <<recipient, line>> that step handed to Send/SendTo

vars == <<variant, net, proc, now, running, isRunning, clients, nextClientId,
          mutexOwner, acceptor, worker, rx, reaper, sig, op, sent>>

(***************************************************************************)
(* Threads, and the records of the state.                                  *)
(***************************************************************************)
Thread(kind, id) == [kind |-> kind, id |-> id]
NoThread == Thread("none", NoId)
ReaperThread == Thread("reaper", NoId)
WorkerThread(i) == Thread("worker", i)

Op(kind, by, who, text, target, ret) ==
    [kind |-> kind, by |-> by, who |-> who, text |-> text, target |-> target,
     ret |-> ret]

\* struct Client, as the accept loop fills it
NewClient(t) ==
    [username |-> <<>>, authenticated |-> FALSE, lastActivity |-> t,
     running |-> TRUE, socket |-> "valid", handler |-> "null"]

\* Client(): what clients[clientId] inserts for a missing key
DefaultClient ==
    [username |-> <<>>, authenticated |-> FALSE, lastActivity |-> 0,
     running |-> TRUE, socket |-> "null", handler |-> "null"]

\* struct UdpClient, as registerClient fills it
NewUdpClient(username, t) == [username |-> username, lastActivity |-> t]

\* why: what ended the worker's loop ("receive", "quit" or "flag")
IdleWorker == [pc |-> "none", username |-> <<>>, why |-> "none"]
\* The threads of a process that has ended are gone.
NoWorkers == [i \in Ids |-> IdleWorker]
IdleRx == [pc |-> "idle", addr |-> NoId, message |-> <<>>, username |-> <<>>]
IdleReaper == [pc |-> "idle", toRemove |-> {}, cur |-> NoId, username |-> <<>>]

\* clients with key k mapped to c
Put(map, k, c) == [x \in (DOMAIN map) \cup {k} |-> IF x = k THEN c ELSE map[x]]

\* For comparison: an erase that leaves the entry in the map.
Erase_keep(map, k) == map

\* clients.erase(k)
Erase(map, k) == [x \in (DOMAIN map) \ {k} |-> map[x]]

\* clients[k] of std::unordered_map: a missing key is inserted first
Subscript(map, k) == IF k \in DOMAIN map THEN map ELSE Put(map, k, DefaultClient)

EmptyMap == [x \in {} |-> 0]

Send(to, line) == SetToBag({<<to, line>>})

Recipients(bag) == {e[1] : e \in BagToSet(bag)}

\* For comparison: a staleness test that is met at the threshold itself.
Inactive_atleast(map, t, threshold) ==
    {k \in DOMAIN map : t - map[k].lastActivity >= threshold}

\* difftime(currentTime, client.lastActivity) > threshold
Inactive(map, t, threshold) ==
    {k \in DOMAIN map : t - map[k].lastActivity > threshold}

ClockStep == IF variant = "tcp" THEN TcpTimeout ELSE UdpTimeout

\* The chat servers are modelled above the socket layer: no socket of the
\* layer's own state machine is in use.
NoNet == [transport |-> "none"]

Init ==
    /\ variant \in {"tcp", "udp"}
    /\ net = NoNet
    /\ proc = "up"
    /\ now = 0
    /\ running = TRUE
    /\ isRunning = (variant = "udp")
    /\ clients = EmptyMap
    /\ nextClientId = 1
    /\ mutexOwner = NoThread
    /\ acceptor = NoId
    /\ worker = NoWorkers
    /\ rx = IdleRx
    /\ reaper = IdleReaper
    /\ sig = "none"
    /\ op = Op("init", "main", NoId, <<>>, <<>>, FALSE)
    /\ sent = EmptyBag

\* The clock advances.
Tick ==
    /\ proc = "up"
    /\ now < MaxTicks * ClockStep
    /\ now' = now + ClockStep
    /\ op' = Op("tick", "clock", NoId, <<>>, <<>>, FALSE)
    /\ sent' = EmptyBag
    /\ UNCHANGED <<variant, net, proc, running, isRunning, clients, nextClientId,
                   mutexOwner, acceptor, worker, rx, reaper, sig>>


(***************************************************************************)
(* The datagram server.                                                    *)
(***************************************************************************)
UdpUp == variant = "udp" /\ proc = "up"

\* The receive loop runs while both flags are set.
UdpLooping == isRunning /\ running

\* broadcastMessage: every key of the map but the sender's address.
UdpBroadcastTargets(map, sender) ==
    {a \in DOMAIN map : sender = NoId \/ a # sender}

UdpBroadcast(map, message, sender) ==
    SetToBag({<<a, BroadcastLine(message)>> : a \in UdpBroadcastTargets(map, sender)})

\* For comparison, PrivateDeliveries_all: a loop without the break.
\* The sessions a private message is delivered to: the loop over the map
\* stops at the first session whose name matches, and the map's iteration
\* order is unspecified.
PrivateDeliveries_all(matches) == {matches}

PrivateDeliveries(matches) == {{a} : a \in matches}

UdpPrivateMatches(map, targetUsername) ==
    {a \in DOMAIN map : map[a].username = targetUsername}

\* sendPrivateMessage: the outcomes [ret, sent] the iteration order allows.
UdpSendPrivateMessage(map, targetUsername, message, sender) ==
    LET senderUsername ==
            IF sender \in DOMAIN map THEN map[sender].username ELSE <<>>
    IN  IF senderUsername = <<>>
        THEN {[ret |-> FALSE, sent |-> EmptyBag]}
        ELSE IF UdpPrivateMatches(map, targetUsername) = {}
        THEN {[ret |-> FALSE, sent |-> EmptyBag]}
        ELSE {[ret |-> TRUE,
               sent |-> SetToBag({<<a, PrivateFromLine(senderUsername, message)>> : a \in to})
                          (+) Send(sender, PrivateToLine(targetUsername, message))] :
                  to \in PrivateDeliveries(UdpPrivateMatches(map, targetUsername))}

\* The user list of the datagram server: one entry per session of the map.
UdpListed(map) == DOMAIN map

\* The orders in which a set of keys can be iterated.
Orders(S) ==
    {f \in [1..Cardinality(S) -> S] : \A i, j \in 1..Cardinality(S) : i # j => f[i] # f[j]}

NamesIn(map, order) == [i \in 1..Len(order) |-> map[order[i]].username]

\* The part of handleMessage that follows the activity update.
UdpClassify(message) ==
    IF Substr(message, 0, 9) = RegisterPrefix THEN "register"
    ELSE IF message = HeartbeatCmd THEN "heartbeat"
    ELSE IF message = QuitCmd THEN "quit"
    ELSE IF message = UsersCmd THEN "users"
    ELSE IF StartsWith(message, MsgPrefix) /\ Len(message) > 5
         THEN (IF SpacePos(message) # Npos THEN "msg" ELSE "invalid")
    ELSE "chat"

UdpFrame == UNCHANGED <<variant, net, proc, now, running, isRunning, nextClientId,
                        mutexOwner, acceptor, worker, sig>>

\* For comparison: an activity update without the find() check.
Touch_insert(map, addr, t) ==
    [x \in (DOMAIN map) \cup {addr} |->
        IF x = addr
        THEN [username |-> IF addr \in DOMAIN map THEN map[addr].username ELSE <<>>,
              lastActivity |-> t]
        ELSE map[x]]

\* clients[addr].lastActivity = std::time(nullptr), if addr is in the map
Touch(map, addr, t) ==
    IF addr \in DOMAIN map THEN [map EXCEPT ![addr].lastActivity = t] ELSE map

UsernameOf(map, addr) == IF addr \in DOMAIN map THEN map[addr].username ELSE <<>>

Out(map, r, bag, o) == [clients |-> map, rx |-> r, sent |-> bag, op |-> o]

Rx(pc, addr, message, username) ==
    [pc |-> pc, addr |-> addr, message |-> message, username |-> username]

\* handleMessage up to the end of its first critical sections: the activity
\* update, and the part of the command that reads or writes the map before
\* any broadcast or private delivery.  The activity update writes only the
\* sender's lastActivity, which none of that part reads, so the two locks
\* are taken in one step.  The result is the set of outcomes the iteration
\* order of the map allows.
handleMessage(map, t, addr, message) ==
    LET class == UdpClassify(message)
        touched == Touch(map, addr, t)
        username == UsernameOf(map, addr)
        resolved == UdpResolveName(message)
    IN  CASE class = "register" ->
               IF addr \in DOMAIN map
               THEN {Out(touched, IdleRx, EmptyBag,
                         Op("register_ignored", "rx", addr, message, resolved, FALSE))}
               ELSE {Out(Put(map, addr, NewUdpClient(resolved, t)),
                         Rx("register_bcast", addr, message, resolved),
                         Send(addr, WelcomeLine(resolved)) (+) Send(addr, InfoLine),
                         Op("register", "rx", addr, message, resolved, TRUE))}
          [] class = "heartbeat" ->
               {Out(touched, IdleRx, EmptyBag,
                    Op("heartbeat", "rx", addr, message, <<>>, FALSE))}
          [] class = "quit" ->
               {Out(Erase(map, addr),
                    IF username # <<>>
                    THEN Rx("quit_bcast", addr, message, username) ELSE IdleRx,
                    EmptyBag,
                    Op("quit", "rx", addr, message, username, addr \in DOMAIN map))}
          [] class = "users" ->
               {Out(touched, IdleRx,
                    Send(addr, UserListLine(NamesIn(map, order))),
                    Op("users", "rx", addr, message, <<>>, TRUE)) :
                    order \in Orders(UdpListed(map))}
          [] class = "msg" ->
               {Out(touched,
                    IF username # <<>>
                    THEN Rx("msg_send", addr, message, username) ELSE IdleRx,
                    EmptyBag,
                    Op("msg_name", "rx", addr, message, username, username # <<>>))}
          [] class = "invalid" ->
               {Out(touched, IdleRx, Send(addr, InvalidFormatLine),
                    Op("invalid", "rx", addr, message, <<>>, FALSE))}
          [] OTHER ->
               {Out(touched,
                    IF username # <<>>
                    THEN Rx("chat_bcast", addr, message, username) ELSE IdleRx,
                    IF username # <<>> THEN EmptyBag
                    ELSE Send(addr, RegisterFirstLine),
                    Op("chat_name", "rx", addr, message, username, username # <<>>))}

\* receiveMessages hands one datagram to handleMessage.
UdpReceive(addr, message) ==
    /\ UdpUp /\ UdpLooping /\ rx.pc = "idle" /\ mutexOwner = NoThread
    /\ \E out \in handleMessage(clients, now, addr, message) :
           /\ clients' = out.clients
           /\ rx' = out.rx
           /\ sent' = out.sent
           /\ op' = out.op
    /\ UNCHANGED reaper
    /\ UdpFrame

\* broadcastMessage(username + " has joined the chat", &clientAddr)
UdpRegisterBroadcast ==
    /\ UdpUp /\ rx.pc = "register_bcast" /\ mutexOwner = NoThread
    /\ sent' = UdpBroadcast(clients, JoinedText(rx.username), rx.addr)
    /\ op' = Op("broadcast", "rx", rx.addr, JoinedText(rx.username), <<>>, FALSE)
    /\ rx' = IdleRx
    /\ UNCHANGED <<clients, reaper>>
    /\ UdpFrame

\* broadcastMessage(username + " has left the chat", &clientAddr)
UdpQuitBroadcast ==
    /\ UdpUp /\ rx.pc = "quit_bcast" /\ mutexOwner = NoThread
    /\ sent' = UdpBroadcast(clients, LeftText(rx.username), rx.addr)
    /\ op' = Op("broadcast", "rx", rx.addr, LeftText(rx.username), <<>>, FALSE)
    /\ rx' = IdleRx
    /\ UNCHANGED <<clients, reaper>>
    /\ UdpFrame

\* sendPrivateMessage, and the not-found notice when it returns false.
UdpMsgSend ==
    /\ UdpUp /\ rx.pc = "msg_send" /\ mutexOwner = NoThread
    /\ \E out \in UdpSendPrivateMessage(clients, TargetOf(rx.message),
                                        PrivateTextOf(rx.message), rx.addr) :
           /\ sent' = IF out.ret THEN out.sent
                      ELSE Send(rx.addr, NotFoundLine(TargetOf(rx.message)))
           /\ op' = Op("private", "rx", rx.addr, rx.message, TargetOf(rx.message),
                       out.ret)
    /\ rx' = IdleRx
    /\ UNCHANGED <<clients, reaper>>
    /\ UdpFrame

\* broadcastMessage(username + ": " + message, &clientAddr)
UdpChatBroadcast ==
    /\ UdpUp /\ rx.pc = "chat_bcast" /\ mutexOwner = NoThread
    /\ sent' = UdpBroadcast(clients, ChatText(rx.username, rx.message), rx.addr)
    /\ op' = Op("broadcast", "rx", rx.addr, ChatText(rx.username, rx.message),
                <<>>, FALSE)
    /\ rx' = IdleRx
    /\ UNCHANGED <<clients, reaper>>
    /\ UdpFrame

\* removeInactiveClients: the sweep collects the stale addresses.
UdpReaperCollect ==
    /\ UdpUp /\ UdpLooping /\ reaper.pc = "idle" /\ mutexOwner = NoThread
    /\ LET toRemove == Inactive(clients, now, UdpTimeout)
       IN  /\ toRemove # {}
           /\ reaper' = [IdleReaper EXCEPT !.pc = "sweep", !.toRemove = toRemove]
    /\ op' = Op("collect", "reaper", NoId, <<>>, <<>>, FALSE)
    /\ sent' = EmptyBag
    /\ UNCHANGED <<clients, rx>>
    /\ UdpFrame

\* The reaper's position after it has dealt with one collected address.
ReaperAfter(r) ==
    IF r.toRemove = {} THEN IdleReaper
    ELSE [IdleReaper EXCEPT !.pc = "sweep", !.toRemove = r.toRemove]

\* The sweep erases one collected address, if it is still in the map.
UdpReaperErase(addr) ==
    /\ UdpUp /\ reaper.pc = "sweep" /\ addr \in reaper.toRemove
    /\ mutexOwner = NoThread
    /\ LET found == addr \in DOMAIN clients
           username == IF found THEN clients[addr].username ELSE <<>>
           rest == [reaper EXCEPT !.toRemove = reaper.toRemove \ {addr}]
       IN  /\ clients' = IF found THEN Erase(clients, addr) ELSE clients
           /\ reaper' = IF username # <<>>
                        THEN [rest EXCEPT !.pc = "bcast", !.cur = addr,
                                          !.username = username]
                        ELSE ReaperAfter(rest)
           /\ op' = Op("evict", "reaper", addr, <<>>, username, found)
    /\ sent' = EmptyBag
    /\ UNCHANGED rx
    /\ UdpFrame

\* broadcastMessage(username + " has timed out")
UdpReaperBroadcast ==
    /\ UdpUp /\ reaper.pc = "bcast" /\ mutexOwner = NoThread
    /\ sent' = UdpBroadcast(clients, TimedOutText(reaper.username), NoId)
    /\ op' = Op("timeout_notice", "reaper", reaper.cur,
                TimedOutText(reaper.username), reaper.username, FALSE)
    /\ reaper' = ReaperAfter(reaper)
    /\ UNCHANGED <<clients, rx>>
    /\ UdpFrame

\* SIGINT: the handler clears the global flag before it calls forceStop.
UdpSignal ==
    /\ UdpUp /\ sig = "none"
    /\ running' = FALSE
    /\ sig' = "handler"
    /\ op' = Op("signal", "signal", NoId, <<>>, <<>>, FALSE)
    /\ sent' = EmptyBag
    /\ UNCHANGED <<variant, net, proc, now, isRunning, clients, nextClientId,
                   mutexOwner, acceptor, worker, rx, reaper>>

\* forceStop: the flag is cleared, the socket closed, the threads detached,
\* and the process exits.
UdpForceStop ==
    /\ UdpUp /\ sig = "handler"
    /\ isRunning' = FALSE
    /\ proc' = "exited"
    /\ sig' = "done"
    /\ rx' = IdleRx
    /\ reaper' = IdleReaper
    /\ op' = Op("forceStop", "signal", NoId, <<>>, <<>>, FALSE)
    /\ sent' = EmptyBag
    /\ UNCHANGED <<variant, net, now, running, clients, nextClientId, mutexOwner,
                   acceptor, worker>>

\* stop(), called by main once start() has seen a cleared flag: it joins the
\* receiver and the reaper, which leave their loops when they are between
\* two datagrams and between two sweeps, and then clears the map.
UdpStop ==
    /\ UdpUp /\ ~UdpLooping
    /\ rx.pc = "idle" /\ reaper.pc = "idle"
    /\ isRunning' = FALSE
    /\ clients' = EmptyMap
    /\ proc' = "stopped"
    /\ op' = Op("stop", "main", NoId, <<>>, <<>>, FALSE)
    /\ sent' = EmptyBag
    /\ UNCHANGED <<variant, net, now, running, nextClientId, mutexOwner, acceptor,
                   worker, rx, reaper, sig>>

UdpNext ==
    \/ \E addr \in Ids, message \in UdpLines : UdpReceive(addr, message)
    \/ UdpRegisterBroadcast
    \/ UdpQuitBroadcast
    \/ UdpMsgSend
    \/ UdpChatBroadcast
    \/ UdpReaperCollect
    \/ \E addr \in Ids : UdpReaperErase(addr)
    \/ UdpReaperBroadcast
    \/ UdpSignal
    \/ UdpForceStop
    \/ UdpStop

(***************************************************************************)
(* The stream server.                                                      *)
(***************************************************************************)
TcpUp == variant = "tcp" /\ proc = "up"

\* For comparison: a loop that does not skip the sender.
TcpBroadcastTargets_all(map, senderId) ==
    {id \in DOMAIN map : map[id].authenticated /\ map[id].socket = "valid"}

\* broadcastMessage: the sessions the loop sends to.
TcpBroadcastTargets(map, senderId) ==
    {id \in DOMAIN map : /\ id # senderId
                         /\ map[id].authenticated
                         /\ map[id].socket = "valid"}

TcpBroadcast(map, message, senderId) ==
    SetToBag({<<id, BroadcastLine(message)>> : id \in TcpBroadcastTargets(map, senderId)})

\* broadcastMessage when one of its sends ends the process: Send is
\* send(fd, data, size, 0), which raises SIGPIPE on a connection the peer has
\* reset, and the server installs a handler for SIGINT only.  The result is
\* the set of bags the loop can have sent before that send: the iteration
\* order of the map is unspecified, so any targets but all of them.
TcpBroadcastKilled(map, message, senderId) ==
    {SetToBag({<<id, BroadcastLine(message)>> : id \in before}) :
        before \in (SUBSET TcpBroadcastTargets(map, senderId))
                      \ {TcpBroadcastTargets(map, senderId)}}

TcpPrivateMatches(map, targetUsername) ==
    {id \in DOMAIN map : /\ map[id].authenticated
                         /\ map[id].username = targetUsername
                         /\ map[id].socket = "valid"}

\* For comparison: a sendPrivateMessage without the confirmation to the sender.
TcpSendPrivateMessage_unconfirmed(map, targetUsername, message, senderId) ==
    IF senderId \notin DOMAIN map
    THEN {[ret |-> FALSE, sent |-> EmptyBag]}
    ELSE IF TcpPrivateMatches(map, targetUsername) = {}
    THEN {[ret |-> FALSE, sent |-> EmptyBag]}
    ELSE {[ret |-> TRUE,
           sent |-> SetToBag({<<id, PrivateFromLine(map[senderId].username, message)>> :
                                 id \in to})] :
              to \in PrivateDeliveries(TcpPrivateMatches(map, targetUsername))}

\* sendPrivateMessage: the outcomes [ret, sent] the iteration order allows.
TcpSendPrivateMessage(map, targetUsername, message, senderId) ==
    IF senderId \notin DOMAIN map
    THEN {[ret |-> FALSE, sent |-> EmptyBag]}
    ELSE IF TcpPrivateMatches(map, targetUsername) = {}
    THEN {[ret |-> FALSE, sent |-> EmptyBag]}
    ELSE {[ret |-> TRUE,
           sent |-> SetToBag({<<id, PrivateFromLine(map[senderId].username, message)>> :
                                 id \in to})
                      (+) (IF map[senderId].socket = "valid"
                           THEN Send(senderId, PrivateToLine(targetUsername, message))
                           ELSE EmptyBag)] :
              to \in PrivateDeliveries(TcpPrivateMatches(map, targetUsername))}

\* The user list of the stream server: the authenticated sessions.
TcpListed(map) == {id \in DOMAIN map : map[id].authenticated}

TcpClassify(message) ==
    IF message = QuitCmd THEN "quit"
    ELSE IF message = UsersCmd THEN "users"
    ELSE IF StartsWith(message, MsgPrefix)
         THEN (IF SpacePos(message) # Npos THEN "msg" ELSE "invalid")
    ELSE "chat"

\* removeClient(clientId): the outcomes [clients, sent, end].  For an
\* authenticated session it calls broadcastMessage while it holds
\* clientsMutex, and broadcastMessage locks the same std::mutex: undefined
\* behaviour, which either blocks the thread for ever with the mutex held
\* (end = "deadlock") or lets the second lock through.  Erasing a session
\* whose handler thread is joinable destroys a joinable std::thread, which
\* calls std::terminate (end = "terminated"); the detached joinThread can
\* have joined it before only if the handler thread has finished.
removeClient(map, clientId, finished) ==
    IF clientId \notin DOMAIN map
    THEN {[clients |-> map, sent |-> EmptyBag, end |-> "returned"]}
    ELSE
      LET c == map[clientId]
          notify == c.authenticated /\ c.username # <<>>
          notice == IF notify
                    THEN TcpBroadcast(map, LeftText(c.username), clientId)
                    ELSE EmptyBag
          closed == [map EXCEPT ![clientId].running = FALSE,
                                ![clientId].socket =
                                    IF c.socket = "null" THEN "null" ELSE "closed"]
          erased == [clients |-> Erase(map, clientId), sent |-> notice,
                     end |-> "returned"]
          killed == [clients |-> closed, sent |-> notice, end |-> "terminated"]
      IN  (IF notify
           THEN {[clients |-> map, sent |-> EmptyBag, end |-> "deadlock"]}
                \cup {[clients |-> map, sent |-> bag, end |-> "sigpipe"] :
                         bag \in TcpBroadcastKilled(map, LeftText(c.username), clientId)}
           ELSE {})
          \cup (IF c.handler # "joinable" THEN {erased}
                ELSE IF finished THEN {erased, killed}
                ELSE {killed})

TcpFrame == UNCHANGED <<variant, net, now, running, isRunning, rx, sig>>

\* The ends of removeClient that end the process.
Fatal(end) == end \in {"terminated", "sigpipe"}

\* The end of a step in which a send of broadcastMessage(text, who) raised
\* SIGPIPE: the process is ended by the signal, `bag` is what the loop had
\* sent.
Sigpipe(by, who, text, bag) ==
    /\ sent' = bag
    /\ op' = Op("sigpipe", by, who, text, <<>>, FALSE)
    /\ proc' = "terminated"
    /\ worker' = NoWorkers
    /\ reaper' = IdleReaper
    /\ acceptor' = NoId

\* The accept loop: a new Client is emplaced under the lock and its handler
\* thread is created.
TcpAccept ==
    /\ TcpUp /\ running /\ acceptor = NoId /\ mutexOwner = NoThread
    /\ nextClientId <= MaxClients
    /\ clients' = IF nextClientId \in DOMAIN clients THEN clients
                  ELSE Put(clients, nextClientId, NewClient(now))
    /\ worker' = [worker EXCEPT ![nextClientId].pc = "auth"]
    /\ acceptor' = nextClientId
    /\ nextClientId' = nextClientId + 1
    /\ op' = Op("accept", "acceptor", nextClientId, <<>>, <<>>, FALSE)
    /\ sent' = EmptyBag
    /\ UNCHANGED <<proc, mutexOwner, reaper>>
    /\ TcpFrame

\* clients[clientId].handler = std::make_unique<std::thread>(...), without
\* the lock.
TcpAssignHandler ==
    /\ TcpUp /\ acceptor # NoId
    /\ clients' = [Subscript(clients, acceptor) EXCEPT ![acceptor].handler = "joinable"]
    /\ acceptor' = NoId
    /\ op' = Op("handler", "acceptor", acceptor, <<>>, <<>>, FALSE)
    /\ sent' = EmptyBag
    /\ UNCHANGED <<proc, nextClientId, mutexOwner, worker, reaper>>
    /\ TcpFrame

\* handleClient returns at once when its session is not in the map.
TcpEarlyReturn(i) ==
    /\ TcpUp /\ worker[i].pc = "auth" /\ i \notin DOMAIN clients
    /\ worker' = [worker EXCEPT ![i].pc = "done"]
    /\ op' = Op("early_return", "worker", i, <<>>, <<>>, FALSE)
    /\ sent' = EmptyBag
    /\ UNCHANGED <<proc, clients, nextClientId, mutexOwner, acceptor, reaper>>
    /\ TcpFrame

\* The first Receive returns zero or less: the exception leads to removeClient.
TcpAuthFail(i) ==
    /\ TcpUp /\ worker[i].pc = "auth" /\ i \in DOMAIN clients
    /\ clients[i].socket # "null"
    /\ worker' = [worker EXCEPT ![i].pc = "remove", ![i].why = "receive"]
    /\ op' = Op("auth_fail", "worker", i, <<>>, <<>>, FALSE)
    /\ sent' = EmptyBag
    /\ UNCHANGED <<proc, clients, nextClientId, mutexOwner, acceptor, reaper>>
    /\ TcpFrame

\* The first payload is the name: it is resolved and stored under the lock.
TcpAuthenticate(i, raw) ==
    /\ TcpUp /\ worker[i].pc = "auth" /\ i \in DOMAIN clients
    /\ clients[i].socket = "valid"
    /\ mutexOwner = NoThread
    /\ LET username == TcpResolveName(raw, i)
       IN  /\ clients' = [clients EXCEPT ![i].username = username,
                                         ![i].authenticated = TRUE,
                                         ![i].lastActivity = now]
           /\ worker' = [worker EXCEPT ![i].pc = "join", ![i].username = username]
           /\ op' = Op("register", "worker", i, raw, username, TRUE)
    /\ sent' = EmptyBag
    /\ UNCHANGED <<proc, nextClientId, mutexOwner, acceptor, reaper>>
    /\ TcpFrame

\* broadcastMessage(username + " has joined the chat", clientId), and then
\* the welcome line, which is sent without the lock.  The welcome reads only
\* this session's socket, which no other thread writes while the session is
\* in the map, so the two are one step.
TcpJoin(i) ==
    /\ TcpUp /\ worker[i].pc = "join" /\ mutexOwner = NoThread
    /\ i \in DOMAIN clients
    /\ clients[i].socket # "null"
    /\ \/ /\ sent' = TcpBroadcast(clients, JoinedText(worker[i].username), i)
                       (+) (IF clients[i].socket = "valid"
                            THEN Send(i, WelcomeLine(worker[i].username)) ELSE EmptyBag)
          /\ op' = Op("broadcast", "worker", i, JoinedText(worker[i].username),
                      worker[i].username, TRUE)
          /\ worker' = [worker EXCEPT ![i].pc = "loop"]
          /\ UNCHANGED <<proc, acceptor, reaper>>
       \/ \E bag \in TcpBroadcastKilled(clients, JoinedText(worker[i].username), i) :
              Sigpipe("worker", i, JoinedText(worker[i].username), bag)
    /\ UNCHANGED <<clients, nextClientId, mutexOwner>>
    /\ TcpFrame

\* while (running && clients[clientId].running && socket->IsValid())
LoopCondition(i) ==
    /\ running
    /\ i \in DOMAIN clients
    /\ clients[i].running
    /\ clients[i].socket = "valid"

\* The loop condition fails: the worker goes on to removeClient.
TcpLoopExit(i) ==
    /\ TcpUp /\ worker[i].pc = "loop" /\ i \in DOMAIN clients
    /\ clients[i].socket # "null"
    /\ ~LoopCondition(i)
    /\ worker' = [worker EXCEPT ![i].pc = "remove", ![i].why = "flag"]
    /\ op' = Op("loop_exit", "worker", i, <<>>, <<>>, FALSE)
    /\ sent' = EmptyBag
    /\ UNCHANGED <<proc, clients, nextClientId, mutexOwner, acceptor, reaper>>
    /\ TcpFrame

\* Receive returns zero or less: the peer has closed, or the transport failed.
TcpDisconnect(i) ==
    /\ TcpUp /\ worker[i].pc = "loop" /\ LoopCondition(i)
    /\ worker' = [worker EXCEPT ![i].pc = "remove", ![i].why = "receive"]
    /\ op' = Op("disconnect", "worker", i, <<>>, <<>>, FALSE)
    /\ sent' = EmptyBag
    /\ UNCHANGED <<proc, clients, nextClientId, mutexOwner, acceptor, reaper>>
    /\ TcpFrame

\* One pass of the message loop: Receive, the stripping of the message, the
\* activity update and the command.  The activity update writes only this
\* session's lastActivity, which no command reads, so its lock and the
\* command's lock are taken in one step.  The result is the set of outcomes
\* [sent, op, pc] the iteration order of the map allows.
TcpCommand(map, i, username, message) ==
    LET class == TcpClassify(message)
    IN  CASE class = "quit" ->
               {[sent |-> EmptyBag, pc |-> "remove",
                 op |-> Op("quit", "worker", i, message, username, TRUE)]}
          [] class = "users" ->
               {[sent |-> Send(i, UserListLine(NamesIn(map, order))), pc |-> "loop",
                 op |-> Op("users", "worker", i, message, <<>>, TRUE)] :
                    order \in Orders(TcpListed(map))}
          [] class = "msg" ->
               {[sent |-> IF out.ret THEN out.sent
                          ELSE Send(i, NotFoundLine(TargetOf(message))),
                 pc |-> "loop",
                 op |-> Op("private", "worker", i, message, TargetOf(message),
                           out.ret)] :
                    out \in TcpSendPrivateMessage(map, TargetOf(message),
                                                  PrivateTextOf(message), i)}
          [] class = "invalid" ->
               {[sent |-> Send(i, InvalidFormatLine), pc |-> "loop",
                 op |-> Op("invalid", "worker", i, message, <<>>, FALSE)]}
          [] OTHER ->
               {[sent |-> TcpBroadcast(map, ChatText(username, message), i),
                 pc |-> "loop",
                 op |-> Op("broadcast", "worker", i, ChatText(username, message),
                           <<>>, FALSE)]}

\* For comparison: an activity update that writes the value a Client is
\* constructed with instead of the current time.
TcpTouch_reset(map, i, t) ==
    [Subscript(map, i) EXCEPT ![i].lastActivity = DefaultClient.lastActivity]

\* clients[clientId].lastActivity = std::time(nullptr): the subscript inserts
\* a Client when the session is not in the map.
TcpTouch(map, i, t) == [Subscript(map, i) EXCEPT ![i].lastActivity = t]

TcpHandle(i, received) ==
    /\ TcpUp /\ worker[i].pc = "loop" /\ LoopCondition(i)
    /\ mutexOwner = NoThread
    /\ clients' = TcpTouch(clients, i, now)
    /\ \/ /\ \E out \in TcpCommand(clients, i, worker[i].username,
                                     TcpStripMessage(received)) :
                 /\ sent' = out.sent
                 /\ op' = out.op
                 /\ worker' = [worker EXCEPT ![i].pc = out.pc,
                                              ![i].why = IF out.pc = "remove" THEN "quit"
                                                         ELSE "none"]
          /\ UNCHANGED <<proc, acceptor, reaper>>
       \/ /\ TcpClassify(TcpStripMessage(received)) = "chat"
          /\ \E bag \in TcpBroadcastKilled(clients,
                           ChatText(worker[i].username, TcpStripMessage(received)), i) :
                 Sigpipe("worker", i,
                         ChatText(worker[i].username, TcpStripMessage(received)), bag)
    /\ UNCHANGED <<nextClientId, mutexOwner>>
    /\ TcpFrame

\* One pass of the message loop of a worker whose session was erased after
\* its Receive returned: the activity update inserts a Client with a null
\* socket, and the command runs on that map.  /quit leaves the loop; a chat
\* line is broadcast; a private message that finds its target is delivered,
\* without a confirmation; every other command ends in a Send through the
\* null socket, which ends the process.
TcpHandleGone(i, received) ==
    /\ TcpUp /\ worker[i].pc = "loop" /\ i \notin DOMAIN clients
    /\ mutexOwner = NoThread
    /\ clients' = TcpTouch(clients, i, now)
    /\ \E out \in TcpCommand(TcpTouch(clients, i, now), i, worker[i].username,
                              TcpStripMessage(received)) :
         LET crash == \/ out.op.kind \in {"users", "invalid"}
                      \/ out.op.kind = "private" /\ ~out.op.ret
         IN  /\ sent' = IF crash THEN EmptyBag ELSE out.sent
             /\ op' = IF crash
                       THEN Op("send_null", "worker", i, out.op.text, out.op.target, FALSE)
                       ELSE out.op
             /\ proc' = IF crash THEN "crashed" ELSE proc
             /\ worker' = IF crash THEN NoWorkers
                          ELSE [worker EXCEPT ![i].pc = out.pc,
                                              ![i].why = IF out.pc = "remove"
                                                         THEN "quit" ELSE "none"]
             /\ reaper' = IF crash THEN IdleReaper ELSE reaper
             /\ acceptor' = IF crash THEN NoId ELSE acceptor
    /\ UNCHANGED <<nextClientId, mutexOwner>>
    /\ TcpFrame

\* A worker uses clients[clientId].socket after its session has left the
\* map: the subscript inserts a Client whose socket is null, and the call
\* through the null pointer ends the process.
TcpNullSocket(i) ==
    /\ TcpUp /\ worker[i].pc \in {"join", "loop"}
    /\ worker[i].pc = "join" => mutexOwner = NoThread
    /\ (IF i \in DOMAIN clients THEN clients[i].socket = "null" ELSE TRUE)
    /\ clients' = Subscript(clients, i)
    /\ proc' = "crashed"
    /\ worker' = NoWorkers
    /\ reaper' = IdleReaper
    /\ acceptor' = NoId
    /\ op' = Op("null_socket", "worker", i, <<>>, <<>>, FALSE)
    /\ sent' = IF worker[i].pc = "join"
               THEN TcpBroadcast(clients, JoinedText(worker[i].username), i)
               ELSE EmptyBag
    /\ UNCHANGED <<nextClientId, mutexOwner>>
    /\ TcpFrame

\* The end of handleClient: removeClient(clientId).
TcpRemove(i) ==
    /\ TcpUp /\ worker[i].pc = "remove" /\ mutexOwner = NoThread
    /\ \E out \in removeClient(clients, i, FALSE) :
           /\ clients' = out.clients
           /\ sent' = out.sent
           /\ proc' = IF Fatal(out.end) THEN "terminated" ELSE proc
           /\ mutexOwner' = IF out.end = "deadlock" THEN WorkerThread(i) ELSE mutexOwner
           /\ worker' = IF Fatal(out.end) THEN NoWorkers
                        ELSE [worker EXCEPT ![i].pc =
                                 IF out.end = "returned" THEN "done" ELSE "removing",
                                            ![i].why = "none"]
           /\ reaper' = IF Fatal(out.end) THEN IdleReaper ELSE reaper
           /\ acceptor' = IF Fatal(out.end) THEN NoId ELSE acceptor
           /\ op' = IF out.end = "sigpipe"
                    THEN Op("sigpipe", "worker", i, LeftText(clients[i].username),
                            <<>>, FALSE)
                    ELSE Op("remove", "worker", i, <<worker[i].why>>, out.end,
                            out.end = "returned")
    /\ UNCHANGED nextClientId
    /\ TcpFrame

\* monitorInactiveClients: the sweep collects the stale sessions.
TcpReaperCollect ==
    /\ TcpUp /\ running /\ reaper.pc = "idle" /\ mutexOwner = NoThread
    /\ LET inactiveClients == Inactive(clients, now, TcpTimeout)
       IN  /\ inactiveClients # {}
           /\ reaper' = [IdleReaper EXCEPT !.pc = "sweep", !.toRemove = inactiveClients]
    /\ op' = Op("collect", "reaper", NoId, <<>>, <<>>, FALSE)
    /\ sent' = EmptyBag
    /\ UNCHANGED <<proc, clients, nextClientId, mutexOwner, acceptor, worker>>
    /\ TcpFrame

\* The sweep reads the name of one collected session under the lock.
TcpReaperName(id) ==
    /\ TcpUp /\ reaper.pc = "sweep" /\ id \in reaper.toRemove
    /\ mutexOwner = NoThread
    /\ reaper' = [reaper EXCEPT !.pc = "bcast", !.cur = id,
                                !.toRemove = reaper.toRemove \ {id},
                                !.username = UsernameOf(clients, id)]
    /\ op' = Op("evict_name", "reaper", id, <<>>, UsernameOf(clients, id), FALSE)
    /\ sent' = EmptyBag
    /\ UNCHANGED <<proc, clients, nextClientId, mutexOwner, acceptor, worker>>
    /\ TcpFrame

\* broadcastMessage(username + " has timed out")
TcpReaperBroadcast ==
    /\ TcpUp /\ reaper.pc = "bcast" /\ mutexOwner = NoThread
    /\ \/ /\ sent' = TcpBroadcast(clients, TimedOutText(reaper.username), NoId)
          /\ op' = Op("timeout_notice", "reaper", reaper.cur,
                      TimedOutText(reaper.username), reaper.username, FALSE)
          /\ reaper' = [reaper EXCEPT !.pc = "remove"]
          /\ UNCHANGED <<proc, acceptor, worker>>
       \/ \E bag \in TcpBroadcastKilled(clients, TimedOutText(reaper.username), NoId) :
              Sigpipe("reaper", NoId, TimedOutText(reaper.username), bag)
    /\ UNCHANGED <<clients, nextClientId, mutexOwner>>
    /\ TcpFrame

\* removeClient(id), called by the sweep.
TcpReaperRemove ==
    /\ TcpUp /\ reaper.pc = "remove" /\ mutexOwner = NoThread
    /\ \E out \in removeClient(clients, reaper.cur, worker[reaper.cur].pc = "done") :
           /\ clients' = out.clients
           /\ sent' = out.sent
           /\ proc' = IF Fatal(out.end) THEN "terminated" ELSE proc
           /\ mutexOwner' = IF out.end = "deadlock" THEN ReaperThread ELSE mutexOwner
           /\ reaper' = CASE out.end = "returned" -> ReaperAfter(reaper)
                          [] Fatal(out.end) -> IdleReaper
                          [] OTHER -> [reaper EXCEPT !.pc = "removing"]
           /\ worker' = IF Fatal(out.end) THEN NoWorkers ELSE worker
           /\ acceptor' = IF Fatal(out.end) THEN NoId ELSE acceptor
           /\ op' = IF out.end = "sigpipe"
                    THEN Op("sigpipe", "reaper", reaper.cur,
                            LeftText(clients[reaper.cur].username), <<>>, FALSE)
                    ELSE Op("remove", "reaper", reaper.cur, <<>>, out.end,
                            out.end = "returned")
    /\ UNCHANGED nextClientId
    /\ TcpFrame

\* SIGINT: forceStop() runs stop(), which clears the flag, detaches every
\* handler, closes every socket and clears the map, and then exit(0).
TcpForceStop ==
    /\ TcpUp /\ running /\ mutexOwner = NoThread
    /\ running' = FALSE
    /\ clients' = EmptyMap
    /\ proc' = "exited"
    /\ worker' = NoWorkers
    /\ reaper' = IdleReaper
    /\ acceptor' = NoId
    /\ op' = Op("stop", "signal", NoId, <<>>, <<>>, FALSE)
    /\ sent' = EmptyBag
    /\ UNCHANGED <<variant, net, now, isRunning, nextClientId, mutexOwner, rx, sig>>

\* SIGINT while clientsMutex is held for ever: stop() clears the flag and
\* then waits for the lock.
TcpStopBlocked ==
    /\ TcpUp /\ running /\ mutexOwner # NoThread
    /\ running' = FALSE
    /\ op' = Op("stop_blocked", "signal", NoId, <<>>, <<>>, FALSE)
    /\ sent' = EmptyBag
    /\ UNCHANGED <<variant, net, proc, now, isRunning, clients, nextClientId,
                   mutexOwner, acceptor, worker, rx, reaper, sig>>

TcpNext ==
    \/ TcpAccept
    \/ TcpAssignHandler
    \/ \E i \in Ids : TcpEarlyReturn(i)
    \/ \E i \in Ids : TcpAuthFail(i)
    \/ \E i \in Ids, raw \in TcpRawNames : TcpAuthenticate(i, raw)
    \/ \E i \in Ids : TcpJoin(i)
    \/ \E i \in Ids : TcpLoopExit(i)
    \/ \E i \in Ids : TcpDisconnect(i)
    \/ \E i \in Ids, received \in ChatLines : TcpHandle(i, received)
    \/ \E i \in Ids, received \in ChatLines : TcpHandleGone(i, received)
    \/ \E i \in Ids : TcpNullSocket(i)
    \/ \E i \in Ids : TcpRemove(i)
    \/ TcpReaperCollect
    \/ \E id \in Ids : TcpReaperName(id)
    \/ TcpReaperBroadcast
    \/ TcpReaperRemove
    \/ TcpForceStop
    \/ TcpStopBlocked

Next == Tick \/ UdpNext \/ TcpNext

Spec == Init /\ [][Next]_vars


(***************************************************************************)
(* The vocabulary of the properties.                                       *)
(***************************************************************************)
\* The sessions that count as authenticated: the stream server sets a flag;
\* the datagram server keeps no flag, a session is registered when it is in
\* the map.
AuthIn(map) ==
    IF variant = "tcp" THEN {id \in DOMAIN map : map[id].authenticated}
    ELSE DOMAIN map

\* The authenticated sessions whose display name is `name`.
NamedIn(map, name) == {id \in AuthIn(map) : map[id].username = name}

\* How many times a step sent `line` to `id`.
Copies(bag, id, line) == CopiesIn(<<id, line>>, bag)

\* A line as the peer reads it: the timestamp, the text, a newline.
Stamped(text) == <<"[", "ctime", "]", " ">> \o text \o <<"\n">>

\* "/msg <name> <text>" as a peer types it.
MsgCommand(name, text) == <<"/", "m", "s", "g", " ">> \o name \o <<" ">> \o text

\* The names and the texts the commands of the inputs carry.
SomeNames == {<<"a">>, <<>>} \cup {GuestName(i) : i \in Ids}
SomeTexts == {<<"h">>}

\* The lines a notice about the session named `name` can be.
LeaveNotices(name) ==
    {Stamped(name \o <<" has left the chat">>), Stamped(name \o <<" has timed out">>)}

C2_PrivateMessageDelivered ==
    [][ \A B \in SomeNames \ {<<>>}, text \in SomeTexts :
          (/\ op'.kind = "private"
           /\ op'.text = MsgCommand(B, text)
           /\ op'.who \in AuthIn(clients)
           /\ clients[op'.who].username # <<>>
           /\ NamedIn(clients, B) # {})
          => /\ op'.ret
             /\ \E b \in NamedIn(clients, B) :
                  sent' = Send(b, Stamped(<<"[Private from ">>
                                            \o clients[op'.who].username
                                            \o <<"]: ">> \o text))
                          (+) Send(op'.who, Stamped(<<"[Private to ">> \o B
                                                      \o <<"]: ">> \o text))
      ]_vars

\* A private message from one session has been delivered to another one.
C2_Witness ==
    /\ op.kind = "private" /\ op.ret
    /\ op.who \in AuthIn(clients)
    /\ \E b \in NamedIn(clients, op.target) \ {op.who} :
         /\ Copies(sent, b, Stamped(<<"[Private from ">> \o clients[op.who].username
                                      \o <<"]: ", "h">>)) = 1
         /\ Copies(sent, op.who, Stamped(<<"[Private to ">> \o op.target
                                           \o <<"]: ", "h">>)) = 1
         /\ BagCardinality(sent) = 2


(***************************************************************************)
(* C3.  If a session is stale (now - lastActivity above 300 s stream,      *)
(* 120 s datagram) when a reaper sweep runs and it sends nothing further,  *)
(* the sweep finishes with the session removed from the registry, and      *)
(* every other authenticated session has been sent "<name> has timed out". *)
(* Step by step: the sweep's removal of a session that is still stale      *)
(* returns with the session erased and the server running; the datagram    *)
(* sweep's erasure is followed by the notice; the notice reaches every     *)
(* other authenticated session.                                            *)
(***************************************************************************)
C3_ReaperEvicts ==
    [][ /\ (op'.kind = "remove" /\ op'.by = "reaper"
               /\ op'.who \in AuthIn(clients)
               /\ now - clients[op'.who].lastActivity > TcpTimeout) =>
             /\ op'.ret
             /\ op'.who \notin DOMAIN clients'
             /\ proc' = "up"
             /\ mutexOwner' = NoThread
        /\ (op'.kind = "evict" /\ op'.who \in AuthIn(clients)
               /\ now - clients[op'.who].lastActivity > UdpTimeout) =>
             /\ op'.who \notin DOMAIN clients'
             /\ reaper'.pc = "bcast" /\ reaper'.cur = op'.who
        /\ op'.kind = "timeout_notice" =>
             \A id \in AuthIn(clients) \ {op'.who} :
                 Copies(sent', id, Stamped(op'.target \o <<" has timed out">>)) = 1
      ]_vars

(***************************************************************************)
(* C4.  Whenever an authenticated session is destroyed (by /quit, by a     *)
(* disconnect or transport error, by the reaper, or by stop()), a "has     *)
(* left" or "has timed out" notice naming it is sent to every              *)
(* authenticated session still in the registry.  Step by step: the step    *)
(* that takes an authenticated session out of the registry either sends    *)
(* the notice to every other session that was authenticated with it, or    *)
(* leaves the notice as the next step of the same thread, or is the        *)
(* stream sweep's removal, which follows the sweep's notice.               *)
(***************************************************************************)
C4_LeaveNotice ==
    [][ \A id \in Ids :
          (id \in AuthIn(clients) /\ id \notin DOMAIN clients') =>
             \/ \A j \in AuthIn(clients) \ {id} :
                   \E line \in LeaveNotices(clients[id].username) :
                       Copies(sent', j, line) >= 1
             \/ rx'.pc = "quit_bcast" /\ rx'.addr = id
             \/ reaper'.pc = "bcast" /\ reaper'.cur = id
             \/ op'.kind = "remove" /\ op'.by = "reaper"
      ]_vars

(***************************************************************************)
(* C5.  In the stream server every worker whose message loop ends (by      *)
(* /quit, by Receive returning zero or less, or by the shutdown flag) then *)
(* completes removeClient: afterwards its session is absent from the       *)
(* registry and its socket is closed.  Step by step: the worker's call of  *)
(* removeClient returns, with the session erased and the process alive.    *)
(***************************************************************************)
C5_WorkerCompletesRemoval ==
    [][ (op'.kind = "remove" /\ op'.by = "worker"
            /\ op'.text \in {<<"quit">>, <<"receive">>, <<"flag">>}) =>
           /\ op'.ret
           /\ op'.who \notin DOMAIN clients'
           /\ worker'[op'.who].pc = "done"
           /\ proc' = "up"
      ]_vars

(***************************************************************************)
(* C6.  In the stream server, after one session's peer disconnects or its  *)
(* Receive/Send fails, only that session is torn down: every other         *)
(* authenticated session keeps being served.  As a state predicate: when   *)
(* the step just taken is the teardown of a session whose Receive          *)
(* returned zero or less, and another authenticated session is in the      *)
(* registry, the process is alive and clientsMutex, which every chat line, *)
(* /users and /msg of that other session locks, is free.                   *)
(***************************************************************************)
C6_TeardownIsolated ==
    (/\ variant = "tcp"
     /\ op.kind = "remove" /\ op.by = "worker" /\ op.text = <<"receive">>
     /\ AuthIn(clients) \ {op.who} # {})
    => (proc = "up" /\ mutexOwner = NoThread)

(***************************************************************************)
(* C7.  When an authenticated session A sends "/msg T text" and no         *)
(* authenticated session has display name T, A is sent exactly one         *)
(* "User T not found." notice and no other session is sent anything.       *)
(* The handling of the command ends with the step that runs                *)
(* sendPrivateMessage, or with the step that finds no name for the sender. *)
(***************************************************************************)
C7_NotFoundNotice ==
    [][ \A T \in SomeNames, text \in SomeTexts :
          (/\ \/ op'.kind = "private"
              \/ op'.kind = "msg_name" /\ ~op'.ret
           /\ op'.text = MsgCommand(T, text)
           /\ op'.who \in AuthIn(clients)
           /\ NamedIn(clients, T) = {})
          => sent' = Send(op'.who, Stamped(<<"User ">> \o T \o <<" not found.">>))
      ]_vars

(***************************************************************************)
(* C8.  If two or more sessions are registered under the same display name *)
(* N, a private message addressed to N is sent to exactly one of them:     *)
(* never to none and never to more than one.                               *)
(***************************************************************************)
C8_DuplicateNameOneDelivery ==
    [][ \A N \in SomeNames, text \in SomeTexts :
          (/\ op'.kind = "private"
           /\ op'.text = MsgCommand(N, text)
           /\ op'.who \in AuthIn(clients)
           /\ Cardinality(NamedIn(clients, N)) >= 2)
          => LET line == Stamped(<<"[Private from ">> \o clients[op'.who].username
                                   \o <<"]: ">> \o text)
             IN  \E b \in NamedIn(clients, N) :
                   /\ Copies(sent', b, line) = 1
                   /\ \A id \in Ids \ {b} : Copies(sent', id, line) = 0
      ]_vars

\* A private message has been addressed to a name two sessions bear, and one
\* of the two has got it.
C8_Witness ==
    /\ op.kind = "private" /\ op.ret
    /\ op.who \in AuthIn(clients)
    /\ Cardinality(NamedIn(clients, op.target)) >= 2
    /\ \E b \in NamedIn(clients, op.target) :
         Copies(sent, b, Stamped(<<"[Private from ">> \o clients[op.who].username
                                   \o <<"]: ", "h">>)) = 1

(***************************************************************************)
(* C9.  The reply to /users lists exactly the display names of the         *)
(* sessions that are authenticated when the command is handled (one entry  *)
(* per such session, none for unauthenticated or unnamed sessions), is     *)
(* sent to the requesting session only, and is produced only for a         *)
(* requester that is itself authenticated.                                 *)
(***************************************************************************)
C9_UserList ==
    [][ op'.kind = "users" =>
          /\ op'.who \in AuthIn(clients)
          /\ \E order \in Orders({id \in AuthIn(clients) : clients[id].username # <<>>}) :
                sent' = Send(op'.who, UserListLine(NamesIn(clients, order)))
      ]_vars

(***************************************************************************)
(* C10.  Registering with an empty or whitespace-only raw name (stream:    *)
(* the first payload; datagram: the text after "REGISTER:") gives the      *)
(* session a display name of the form "Guest" followed by a sequence       *)
(* number.                                                                 *)
(***************************************************************************)
Blank(raw) == \A k \in 1..Len(raw) : raw[k] \in {" ", "\t", "\n", "\r"}

RawNameOf(o) == IF o.by = "rx" THEN SubSeq(o.text, 10, Len(o.text)) ELSE o.text

C10_GuestName ==
    [][ (op'.kind = "register" /\ Blank(RawNameOf(op'))) =>
           \E n \in Ids :
               clients'[op'.who].username = <<"G", "u", "e", "s", "t">> \o to_string(n)
      ]_vars


(***************************************************************************)
(* C11.  After a session named N has been removed (quit, disconnect or     *)
(* reaper eviction) and no other session is named N, every later private   *)
(* message addressed to N finds no target (sendPrivateMessage returns      *)
(* false) and N appears in no /users reply.  Step by step: a removal that  *)
(* returns leaves the identity out of the registry; only a registration    *)
(* gives a session of the registry a name; a private message addressed to  *)
(* a name no session of the registry bears returns false and delivers      *)
(* nothing; a /users reply has no entry for such a name.                   *)
(***************************************************************************)
\* The entries of a /users reply: the tokens between "- " and the newline.
ListsName(line, name) ==
    \E k \in 1..Len(line) :
        /\ line[k] = "- "
        /\ k + Len(name) + 1 <= Len(line)
        /\ SubSeq(line, k + 1, k + Len(name)) = name
        /\ line[k + Len(name) + 1] = "\n"

\* The sessions of the registry whose display name is `name`.
Bearing(map, name) == {id \in DOMAIN map : map[id].username = name}

C11_RemovedNameUnreachable ==
    [][ /\ ((op'.kind \in {"quit", "evict"} /\ op'.by \in {"rx", "reaper"})
               \/ (op'.kind = "remove" /\ op'.ret))
            => op'.who \notin DOMAIN clients'
        /\ \A N \in SomeNames \ {<<>>} :
             /\ ~(Bearing(clients', N) \subseteq Bearing(clients, N))
                   => op'.kind = "register"
             /\ \A text \in SomeTexts :
                  (op'.kind = "private" /\ op'.text = MsgCommand(N, text)
                      /\ Bearing(clients, N) = {})
                  => /\ ~op'.ret
                     /\ \A e \in BagToSet(sent') : e[2][5] # "[Private from "
             /\ (op'.kind = "users" /\ Bearing(clients, N) = {})
                  => \A e \in BagToSet(sent') : ~ListsName(e[2], N)
      ]_vars

\* A stream session named "a" has been removed, its worker has returned, and
\* a private message addressed to "a" has just found no target.
C11_Witness ==
    /\ op.kind = "private" /\ ~op.ret /\ op.target = <<"a">>
    /\ \E i \in Ids : /\ worker[i].pc = "done"
                      /\ worker[i].username = <<"a">>
                      /\ i \notin DOMAIN clients
    /\ Bearing(clients, <<"a">>) = {}


(***************************************************************************)
(* C12.  Touching or removing an identity that is not in the registry is a *)
(* no-op in both servers: it creates no session, changes no existing       *)
(* session and sends no message.  This covers the stream worker's          *)
(* per-message lastActivity update, removeClient, and the datagram         *)
(* handleMessage activity update.                                          *)
(***************************************************************************)
C12_AbsentIdentityNoOp ==
    [][ /\ (op'.by = "worker" /\ op'.who \notin DOMAIN clients
               /\ op'.kind \in {"quit", "users", "private", "invalid",
                                "broadcast", "send_null"})
             => clients' = clients
        /\ (op'.kind = "remove" /\ op'.who \notin DOMAIN clients)
             => (clients' = clients /\ sent' = EmptyBag)
        /\ (op'.by = "rx" /\ op'.who \notin DOMAIN clients
               /\ op'.kind \in {"heartbeat", "quit", "users", "msg_name",
                                "invalid", "chat_name"})
             => /\ clients' = clients
                /\ op'.kind \in {"heartbeat", "quit"} => sent' = EmptyBag
      ]_vars


(***************************************************************************)
(* C13.  In every reachable state of both servers, every session that      *)
(* counts as authenticated (stream: the flag is set; datagram: present in  *)
(* the clients map after a REGISTER) has a non-empty display name.         *)
(***************************************************************************)
C13_AuthenticatedNamed ==
    \A id \in AuthIn(clients) : clients[id].username # <<>>


(***************************************************************************)
(* C14.  stop() in both servers returns only after the accept or receive   *)
(* loop, the reaper and every per-client worker have terminated (all       *)
(* threads joined, none detached), with every session's transport handle   *)
(* closed.  Step by step: when stop() runs to its end, no worker is        *)
(* between the start and the end of handleClient, and the receiver and the *)
(* reaper are not inside a pass.                                           *)
(***************************************************************************)
C14_StopJoinsThreads ==
    [][ op'.kind = "stop" =>
          /\ \A i \in Ids : worker[i].pc \in {"none", "done"}
          /\ rx.pc = "idle"
          /\ reaper.pc = "idle"
      ]_vars

(***************************************************************************)
(* C15.  forceStop() in both servers clears the running flag, closes the   *)
(* transport handles and hands control back or terminates the process,     *)
(* without waiting for any worker thread and without waiting for any lock  *)
(* that a worker, the reaper or a broadcast in progress may hold.  Step by *)
(* step: every run of forceStop from the signal handler ends with the flag *)
(* cleared and the process gone, whoever holds clientsMutex.               *)
(***************************************************************************)
C15_ForceStopNeverWaits ==
    [][ (op'.by = "signal" /\ op'.kind \in {"stop", "stop_blocked", "forceStop"}) =>
          /\ proc' = "exited"
          /\ variant = "tcp" => ~running'
          /\ variant = "udp" => ~isRunning'
      ]_vars


(***************************************************************************)
(* C16.  On registration the server sends the new session a welcome line   *)
(* that contains the resolved display name (stream: after the first        *)
(* payload; datagram: after "REGISTER:<name>" from an unregistered         *)
(* address), and sends it to that session only.  Step by step: the         *)
(* datagram registration step, and the stream step that announces the      *)
(* join, send the session exactly one welcome line with the name the       *)
(* registry holds for it; no other recipient and no other step gets a      *)
(* welcome line.                                                           *)
(***************************************************************************)
IsWelcome(line) == Len(line) >= 5 /\ line[5] = "Welcome to the chat, "

Registers(o) ==
    \/ o.kind = "register" /\ o.by = "rx"
    \/ o.kind = "broadcast" /\ o.by = "worker" /\ o.ret

C16_WelcomeToNewSession ==
    [][ /\ Registers(op') =>
             /\ op'.who \in AuthIn(clients')
             /\ Copies(sent', op'.who,
                       Stamped(<<"Welcome to the chat, ">>
                                 \o clients'[op'.who].username \o <<"!">>)) = 1
        /\ \A e \in BagToSet(sent') :
             IsWelcome(e[2]) => (Registers(op') /\ e[1] = op'.who
                                    /\ CopiesIn(e, sent') = 1)
      ]_vars

\* A session named "a" has just been welcomed while another session is
\* registered.
C16_Witness ==
    /\ Registers(op)
    /\ op.who \in AuthIn(clients)
    /\ clients[op.who].username = <<"a">>
    /\ Copies(sent, op.who, Stamped(<<"Welcome to the chat, ", "a", "!">>)) = 1
    /\ AuthIn(clients) \ {op.who} # {}


(***************************************************************************)
(* C17.  Every input line that starts with "/msg " and contains no second  *)
(* space, including the line that is exactly "/msg ", is answered with the *)
(* invalid-format notice to the sending session only; it is never          *)
(* broadcast as a chat line, and the sender's session stays registered.    *)
(***************************************************************************)
NoSecondSpace == {<<"/", "m", "s", "g", " ">>, <<"/", "m", "s", "g", " ", "a">>}

C17_InvalidFormatNotice ==
    [][ \A line \in NoSecondSpace :
          (/\ op'.by \in {"rx", "worker"}
           /\ op'.text = line
           /\ op'.who \in AuthIn(clients))
          => /\ sent' = Send(op'.who,
                  Stamped(<<"Invalid private message format. Use /msg <username> <message>">>))
             /\ op'.who \in AuthIn(clients')
             /\ rx'.pc # "chat_bcast"
      ]_vars


(***************************************************************************)
(* C18.  In the datagram server a command that needs an authenticated      *)
(* sender (/users, /msg ..., or a plain chat line) arriving from an        *)
(* address with no registered session is rejected: the sender is sent the  *)
(* register-first prompt, the command is not executed, and nothing is sent *)
(* to anyone else.                                                         *)
(***************************************************************************)
C18_UnregisteredRejected ==
    [][ (/\ op'.by = "rx"
         /\ op'.kind \in {"users", "msg_name", "invalid", "chat_name"}
         /\ op'.who \notin DOMAIN clients)
        => /\ sent' = Send(op'.who, <<"Please register first with REGISTER:<username>">>)
           /\ rx'.pc = "idle"
           /\ clients' = clients
      ]_vars


(***************************************************************************)
(* C19.  A private message whose sender is not an authenticated session in *)
(* the registry is a silent no-op in both servers: nothing is sent to the  *)
(* target, nothing is sent to the sender (neither a confirmation nor a     *)
(* "not found" notice), and the registry is unchanged.                     *)
(***************************************************************************)
C19_UnknownSenderSilent ==
    [][ \A T \in SomeNames, text \in SomeTexts :
          (/\ op'.kind \in {"private", "msg_name", "send_null"}
           /\ op'.text = MsgCommand(T, text)
           /\ op'.who \notin AuthIn(clients))
          => /\ sent' = EmptyBag
             /\ clients' = clients
      ]_vars


(***************************************************************************)
(* C20.  In the datagram server a "HEARTBEAT" datagram changes nothing     *)
(* except the sender's lastActivity: no message is sent to anyone, and no  *)
(* session is created, removed or renamed; from an address with no session *)
(* it changes nothing at all.                                              *)
(***************************************************************************)
C20_HeartbeatOnlyTouches ==
    [][ (op'.by = "rx" /\ op'.text = <<"H", "E", "A", "R", "T", "B", "E", "A", "T">>) =>
          /\ op'.kind = "heartbeat"
          /\ sent' = EmptyBag
          /\ DOMAIN clients' = DOMAIN clients
          /\ \A id \in DOMAIN clients :
                /\ clients'[id].username = clients[id].username
                /\ clients'[id].lastActivity =
                      IF id = op'.who THEN now ELSE clients[id].lastActivity
          /\ op'.who \notin DOMAIN clients => clients' = clients
          /\ rx' = rx /\ reaper' = reaper
          /\ <<proc', running', isRunning', sig'>> = <<proc, running, isRunning, sig>>
      ]_vars

\* A heartbeat has refreshed one session while another one has stayed stale.
C20_Witness ==
    /\ op.kind = "heartbeat"
    /\ op.who \in DOMAIN clients
    /\ clients[op.who].lastActivity = now /\ now > 0
    /\ \E id \in DOMAIN clients \ {op.who} : clients[id].lastActivity < now


(***************************************************************************)
(* C21.  In the datagram server a "REGISTER:<name2>" datagram from an       *)
(* address that already has a session updates that session: afterwards the *)
(* session's display name is the name resolved from name2, the session is  *)
(* registered, and the address still has exactly one session (the set of   *)
(* sessions is the same).                                                   *)
(***************************************************************************)
C21_ReRegisterUpdates ==
    [][ (/\ op'.by = "rx"
         /\ op'.kind \in {"register", "register_ignored"}
         /\ op'.who \in DOMAIN clients)
        => /\ DOMAIN clients' = DOMAIN clients
           /\ op'.who \in AuthIn(clients')
           /\ clients'[op'.who].username = UdpResolveName(op'.text)
      ]_vars


(***************************************************************************)
(* C22.  In both servers a "/msg" line with a zero-length target            *)
(* ("/msg  text") from an authenticated, named session is addressed to ""  *)
(* and fails lookup in every registry state: the sender is sent the         *)
(* "User  not found." notice and nothing else is sent, so no session is     *)
(* sent the private text.                                                   *)
(***************************************************************************)
C22_EmptyTargetFails ==
    [][ \A text \in SomeTexts :
          (/\ \/ op'.kind = "private"
              \/ op'.kind = "msg_name" /\ ~op'.ret
           /\ op'.text = MsgCommand(<<>>, text)
           /\ op'.who \in AuthIn(clients)
           /\ clients[op'.who].username # <<>>)
          => /\ sent' = Send(op'.who, Stamped(<<"User ">> \o <<>> \o <<" not found.">>))
             /\ \A id \in Ids :
                    Copies(sent', id,
                           Stamped(<<"[Private from ">> \o clients[op'.who].username
                                     \o <<"]: ">> \o text)) = 0
      ]_vars


(***************************************************************************)
(* C23.  During a broadcast in either server a send failure to one         *)
(* recipient does not stop the broadcast: in every step that runs          *)
(* broadcastMessage there is at most one recipient whose send failed, every *)
(* other eligible recipient (every authenticated session but the excluded  *)
(* one) is sent its copy, nobody is sent two copies (no send is retried),  *)
(* and every session of the registry is still there under the same name.   *)
(***************************************************************************)
C23_BroadcastSurvivesFailure ==
    [][ op'.kind \in {"broadcast", "timeout_notice", "sigpipe"} =>
          LET excluded == IF op'.kind = "timeout_notice" THEN NoId ELSE op'.who
              eligible == AuthIn(clients) \ {excluded}
              line == Stamped(op'.text)
          IN  /\ \E failed \in Ids :
                    \A id \in eligible \ {failed} : Copies(sent', id, line) = 1
              /\ \A id \in Ids : Copies(sent', id, line) <= 1
              /\ \A id \in DOMAIN clients :
                    /\ id \in DOMAIN clients'
                    /\ clients'[id].username = clients[id].username
      ]_vars


(***************************************************************************)
(* C24.  For every session in either server lastActivity never decreases   *)
(* while the session exists: in every step (an inbound message, a          *)
(* heartbeat, a registration, a step of the reaper, a tick of the clock,   *)
(* which only goes forward) a session that is in the registry before and   *)
(* after the step has a lastActivity at least as large as before.          *)
(***************************************************************************)
C24_LastActivityMonotone ==
    [][ \A id \in (DOMAIN clients) \cap (DOMAIN clients') :
            clients'[id].lastActivity >= clients[id].lastActivity
      ]_vars

\* A session that the reaper's sweep had collected as stale has sent a
\* message since: its lastActivity was moved forward to the current time.
C24_Witness ==
    /\ reaper.pc = "sweep"
    /\ op.by \in {"worker", "rx"}
    /\ op.who \in reaper.toRemove
    /\ op.who \in DOMAIN clients
    /\ clients[op.who].lastActivity = now


(***************************************************************************)
(* C25.  Every line either server sends to a client (welcome, join, leave  *)
(* and time-out notices, chat lines, private messages and confirmations,   *)
(* user lists, error notices, the register-first prompt) begins with a     *)
(* bracketed timestamp and ends with a newline.                            *)
(***************************************************************************)
C25_LinesStamped ==
    \A e \in BagToSet(sent) :
        LET line == e[2]
            stamp == <<"[", "ctime", "]", " ">>
        IN  /\ Len(line) > Len(stamp)
            /\ SubSeq(line, 1, Len(stamp)) = stamp
            /\ line[Len(line)] = "\n"


(***************************************************************************)
(* Registration over a wider alphabet of raw names: the same servers,      *)
(* taking only the steps that lead to a stored name.                       *)
(***************************************************************************)
MaxNameLen == 2

\* Raw names of up to MaxNameLen characters: a letter, a space, a newline,
\* a NUL byte.
WideRawNames == UNION {[1..n -> {"a", " ", "\n", "NUL"}] : n \in 0..MaxNameLen}

NameNext ==
    \/ \E addr \in Ids, raw \in WideRawNames : UdpReceive(addr, RegisterPrefix \o raw)
    \/ UdpRegisterBroadcast
    \/ TcpAccept
    \/ TcpAssignHandler
    \/ \E i \in Ids, raw \in WideRawNames \ {<<>>} : TcpAuthenticate(i, raw)

NameSpec == Init /\ [][NameNext]_vars

(***************************************************************************)
(* C26.  The display name stored by registration never contains a newline, *)
(* a carriage return or a NUL character and has no leading or trailing     *)
(* whitespace, for every raw name over the input alphabet, in both         *)
(* servers.                                                                *)
(***************************************************************************)
C26_StoredNameSanitised ==
    \A id \in AuthIn(clients) :
        LET name == clients[id].username
        IN  /\ \A k \in 1..Len(name) : name[k] \notin {"\n", "\r", "NUL"}
            /\ name # <<>> => /\ name[1] \notin {" ", "\t"}
                              /\ name[Len(name)] \notin {" ", "\t"}


(***************************************************************************)
(* Start-up: main constructs the server and calls start(), which either    *)
(* throws before any thread exists or brings the server up.                *)
(***************************************************************************)
\* The state after the constructor: the stream server's running(false), the
\* datagram server's isRunning{false} and the global running(true).
Constructed ==
    /\ variant \in {"tcp", "udp"}
    /\ net = NoNet
    /\ proc = "constructed"
    /\ now = 0
    /\ running = (variant = "udp")
    /\ isRunning = FALSE
    /\ clients = EmptyMap
    /\ nextClientId = 1
    /\ mutexOwner = NoThread
    /\ acceptor = NoId
    /\ worker = NoWorkers
    /\ rx = IdleRx
    /\ reaper = IdleReaper
    /\ sig = "none"
    /\ op = Op("construct", "main", NoId, <<>>, <<>>, FALSE)
    /\ sent = EmptyBag

\* start() throws: main catches the exception, prints it, calls stop(),
\* which clears the flag and the map, and returns 0.
StartThrows(cause) ==
    /\ proc = "constructed"
    /\ cause \in (IF variant = "tcp" THEN {"factory", "listener", "bind", "listen"}
                  ELSE {"socket", "bind"})
    /\ running' = (variant = "udp")
    /\ isRunning' = FALSE
    /\ clients' = EmptyMap
    /\ proc' = "stopped"
    /\ op' = Op("start_failed", "main", NoId, <<cause>>, <<>>, FALSE)
    /\ sent' = EmptyBag
    /\ UNCHANGED <<variant, net, now, nextClientId, mutexOwner, acceptor, worker, rx,
                   reaper, sig>>

\* start() sets the flag and starts its threads.
StartRuns ==
    /\ proc = "constructed"
    /\ proc' = "up"
    /\ running' = TRUE
    /\ isRunning' = (variant = "udp")
    /\ op' = Op("start", "main", NoId, <<>>, <<>>, TRUE)
    /\ sent' = EmptyBag
    /\ UNCHANGED <<variant, net, now, clients, nextClientId, mutexOwner, acceptor,
                   worker, rx, reaper, sig>>

\* The status the process ends with: main returns 0 after stop() and
\* forceStop() calls exit(0); std::terminate and a fault end it abnormally.
ExitStatus(p) ==
    CASE p \in {"stopped", "exited"} -> 0
      [] p \in {"terminated", "crashed"} -> 1
      [] OTHER -> NoId

StartNext ==
    \/ \E cause \in {"factory", "listener", "bind", "listen", "socket"} : StartThrows(cause)
    \/ StartRuns
    \/ Next

StartSpec == Constructed /\ [][StartNext]_vars

(***************************************************************************)
(* C27.  If start() cannot create, bind or put into listening state its    *)
(* socket, the failure reaches main, the process exits with a non-zero     *)
(* status, and at that point no reaper, receiver or worker thread has been *)
(* started and the registry holds no session.                              *)
(***************************************************************************)
C27_StartFailureExitsNonZero ==
    [][ op'.kind = "start_failed" =>
          /\ op'.by = "main"
          /\ ExitStatus(proc') > 0
          /\ worker' = NoWorkers /\ rx' = IdleRx /\ reaper' = IdleReaper
          /\ acceptor' = NoId
          /\ clients' = EmptyMap
      ]_vars


(***************************************************************************)
(* The socket layer: one client socket and its peer (the socket the test   *)
(* server accepted, or the test server's datagram socket), the bytes in    *)
(* flight between them, and the last method call with what it returned     *)
(* and the descriptor it handed to the kernel.                             *)
(***************************************************************************)
MaxCalls == 4

bufferSize == 4096

\* std::byte(c) of each char, and static_cast<char>(std::to_integer<int>(b))
\* of each byte: a char is signed and eight bits wide.
StringToBytes(str) == [i \in 1..Len(str) |-> str[i] % 256]
BytesToString(bytes) ==
    [i \in 1..Len(bytes) |-> IF bytes[i] >= 128 THEN bytes[i] - 256 ELSE bytes[i]]

\* The strings the tests send: a letter, a letter and the char 0xFF, and
\* strings of bufferSize and bufferSize + 1 letters.
TestMessages ==
    { <<72>>, <<72, -1>>,
      [i \in 1..bufferSize |-> 72],
      [i \in 1..(bufferSize + 1) |-> 72] }

\* A socket object: UnixTcpSocket's m_socketFd and m_isConnected; a
\* UnixUdpSocket has the descriptor only.
Socket(fd, connected) == [m_socketFd |-> fd, m_isConnected |-> connected]

IsValid(s) == s.m_socketFd # NoId

\* For comparison: a Close that releases the descriptor and keeps its number.
Close_keep(s) ==
    IF s.m_socketFd # NoId THEN Socket(s.m_socketFd, FALSE) ELSE s

\* Close(): close(m_socketFd); m_socketFd = -1; m_isConnected = false.
Close(s) ==
    IF s.m_socketFd # NoId THEN Socket(NoId, FALSE) ELSE s

\* The guard of UnixTcpSocket::Send and ::Receive.
Refuses(s) == s.m_socketFd = NoId \/ ~s.m_isConnected

\* recv and recvfrom with a buffer of bufferSize bytes: the bytes read.
Received(chunk) == SubSeq(chunk, 1, Min(Len(chunk), bufferSize))

\* The rest of a stream's chunk after a recv; a datagram's rest is discarded.
Unread(chunk) == SubSeq(chunk, Min(Len(chunk), bufferSize) + 1, Len(chunk))

Call(on, name, ret, sys) == [on |-> on, name |-> name, ret |-> ret, sys |-> sys]

ChatVars == <<variant, proc, now, running, isRunning, clients, nextClientId,
              mutexOwner, acceptor, worker, rx, reaper, sig, op, sent>>

\* The test fixture after SetUp and CreateAndStartServer: the client socket
\* is created (and, for datagrams, bound), the datagram server's socket is
\* bound, the stream server has accepted nothing yet.
SocketInit ==
    /\ \E transport \in {"tcp", "udp"}, testMessage \in TestMessages :
         net = [transport |-> transport,
                alive |-> TRUE,
                client |-> Socket(3, FALSE),
                server |-> IF transport = "udp" THEN Socket(4, FALSE)
                           ELSE Socket(NoId, FALSE),
                link |-> "none",
                c2s |-> <<>>,
                s2c |-> <<>>,
                testMessage |-> testMessage,
                receivedMessage |-> <<>>,
                messageReceived |-> FALSE,
                recvBuffer |-> <<>>,
                clientClosed |-> FALSE,
                calls |-> 0,
                call |-> Call("none", "none", FALSE, NoId)]
    /\ variant = "tcp"
    /\ proc = "test"
    /\ now = 0
    /\ running = FALSE
    /\ isRunning = FALSE
    /\ clients = EmptyMap
    /\ nextClientId = 1
    /\ mutexOwner = NoThread
    /\ acceptor = NoId
    /\ worker = NoWorkers
    /\ rx = IdleRx
    /\ reaper = IdleReaper
    /\ sig = "none"
    /\ op = Op("test", "main", NoId, <<>>, <<>>, FALSE)
    /\ sent = EmptyBag

\* A method call of the test on its client socket.
ClientCalls == net.transport # "none" /\ net.alive /\ net.calls < MaxCalls

Returned(name, ret, sys) ==
    [net EXCEPT !.calls = net.calls + 1, !.call = Call("client", name, ret, sys)]

ClientIsValid ==
    /\ ClientCalls
    /\ net' = Returned("IsValid", IsValid(net.client), NoId)
    /\ UNCHANGED ChatVars

\* Connect with the default m_connectTimeoutMs: a blocking connect(), whose
\* result becomes m_isConnected.  The server accepts the connection.
ClientConnect ==
    /\ ClientCalls /\ net.transport = "tcp"
    /\ IF net.client.m_socketFd = NoId
       THEN net' = Returned("Connect", FALSE, NoId)
       ELSE \E result \in (IF net.link = "none" THEN {0, -1} ELSE {-1}) :
              net' = [Returned("Connect", result = 0, net.client.m_socketFd) EXCEPT
                        !.client = Socket(net.client.m_socketFd, result = 0),
                        !.server = IF result = 0 THEN Socket(4, TRUE) ELSE net.server,
                        !.link = IF result = 0 THEN "up" ELSE net.link]
    /\ UNCHANGED ChatVars

\* Send / SendTo of StringToBytes(testMessage), with nothing else in flight.
\* On a connection the peer has closed send() passes, fails or raises
\* SIGPIPE.
ClientSend ==
    /\ ClientCalls /\ net.c2s = <<>>
    /\ LET data == StringToBytes(net.testMessage)
           fd == net.client.m_socketFd
       IN  IF net.transport = "tcp"
           THEN IF Refuses(net.client)
                THEN net' = Returned("Send", -1, NoId)
                ELSE IF net.link = "up"
                THEN net' = [Returned("Send", Len(data), fd) EXCEPT
                               !.c2s = Append(net.c2s, data)]
                ELSE \/ net' = Returned("Send", Len(data), fd)
                     \/ net' = Returned("Send", -1, fd)
                     \/ net' = [Returned("Send", -1, fd) EXCEPT !.alive = FALSE]
           ELSE IF fd = NoId
                THEN net' = Returned("SendTo", -1, NoId)
                ELSE net' = [Returned("SendTo", Len(data), fd) EXCEPT
                               !.c2s = IF IsValid(net.server)
                                       THEN Append(net.c2s, data) ELSE net.c2s]
    /\ UNCHANGED ChatVars

\* Receive / ReceiveFrom into recvBuffer: the call returns when something
\* is in flight or, for a stream, when the peer has closed.
ClientReceive ==
    /\ ClientCalls
    /\ LET fd == net.client.m_socketFd
           name == IF net.transport = "tcp" THEN "Receive" ELSE "ReceiveFrom"
           refused == IF net.transport = "tcp" THEN Refuses(net.client) ELSE fd = NoId
       IN  IF refused
           THEN net' = Returned(name, -1, NoId)
           ELSE IF net.s2c # <<>>
           THEN LET bytes == Received(Head(net.s2c))
                    rest == Unread(Head(net.s2c))
                IN  net' = [Returned(name, Len(bytes), fd) EXCEPT
                              !.recvBuffer = IF Len(bytes) > 0 THEN bytes
                                             ELSE net.recvBuffer,
                              !.s2c = IF net.transport = "tcp" /\ rest # <<>>
                                      THEN <<rest>> \o Tail(net.s2c)
                                      ELSE Tail(net.s2c)]
           ELSE /\ net.transport = "tcp" /\ net.link \in {"closed", "reset"}
                /\ net' = Returned(name, IF net.link = "reset" THEN -1 ELSE 0, fd)
    /\ UNCHANGED ChatVars

\* WaitForDataWithTimeout: pselect on the descriptor; a stream socket that
\* is not connected answers false at once.
ClientWait ==
    /\ ClientCalls
    /\ LET fd == net.client.m_socketFd
           readable == net.s2c # <<>> \/ net.link \in {"closed", "reset"}
       IN  IF (net.transport = "tcp" /\ ~net.client.m_isConnected) \/ fd = NoId
           THEN net' = Returned("WaitForDataWithTimeout", FALSE, NoId)
           ELSE net' = Returned("WaitForDataWithTimeout", readable, fd)
    /\ UNCHANGED ChatVars

ClientClose ==
    /\ ClientCalls
    /\ net' = [Returned("Close", FALSE, net.client.m_socketFd) EXCEPT
                 !.client = Close(net.client),
                 !.clientClosed = TRUE,
                 !.link = IF net.link = "up" THEN "closed" ELSE net.link]
    /\ UNCHANGED ChatVars

\* TestTcpServer::handleClient on the accepted socket: Receive, store and
\* echo what was read, Close (a close with bytes unread resets the
\* connection).  TestUdpServer::run: ReceiveFrom, store and echo.
ServerHandle ==
    /\ net.transport # "none" /\ net.alive
    /\ IsValid(net.server)
    /\ \/ /\ net.c2s # <<>>
          /\ LET buffer == Received(Head(net.c2s))
                 rest == Unread(Head(net.c2s))
                 bytesRead == Len(buffer)
                 delivered == IF net.transport = "tcp" THEN net.link = "up"
                              ELSE IsValid(net.client)
             IN  net' = [net EXCEPT
                     !.call = Call("server", "handle", bytesRead, net.server.m_socketFd),
                     !.receivedMessage = IF bytesRead > 0 THEN BytesToString(buffer)
                                         ELSE net.receivedMessage,
                     !.messageReceived = net.messageReceived \/ bytesRead > 0,
                     !.c2s = Tail(net.c2s),
                     !.s2c = IF bytesRead > 0 /\ delivered
                             THEN Append(net.s2c, buffer) ELSE net.s2c,
                     !.server = IF net.transport = "tcp" THEN Close(net.server)
                                ELSE net.server,
                     !.link = IF net.transport = "udp" THEN net.link
                              ELSE IF rest # <<>> THEN "reset"
                              ELSE IF net.link = "up" THEN "closed" ELSE net.link]
       \/ /\ net.c2s = <<>> /\ net.transport = "tcp" /\ net.link = "closed"
          /\ net' = [net EXCEPT
                  !.call = Call("server", "handle", 0, net.server.m_socketFd),
                  !.server = Close(net.server)]
    /\ UNCHANGED ChatVars

SocketNext ==
    \/ ClientIsValid
    \/ ClientConnect
    \/ ClientSend
    \/ ClientReceive
    \/ ClientWait
    \/ ClientClose
    \/ ServerHandle

SocketSpec == SocketInit /\ [][SocketNext]_vars

\* A socket its owner can use: a stream socket that is connected, a datagram
\* socket that is open.
Attached(transport, s) == IF transport = "tcp" THEN ~Refuses(s) ELSE IsValid(s)

\* A client and a server that are connected: the stream is established, or
\* both datagram sockets are open.
Connected(n) ==
    /\ Attached(n.transport, n.client)
    /\ IF n.transport = "tcp" THEN n.link = "up" ELSE IsValid(n.server)

(***************************************************************************)
(* C28.  For a connected client and server over the socket layer, Send or  *)
(* SendTo of an n-byte message returns n, the peer's Receive or            *)
(* ReceiveFrom yields exactly those bytes (BytesToString of the received   *)
(* buffer equals the string that was sent), and the echo the server sends  *)
(* back arrives at the client equal to the original message.               *)
(***************************************************************************)
C28_EchoRoundTrip ==
    [][ /\ (Connected(net) /\ net'.call.on = "client"
               /\ net'.call.name \in {"Send", "SendTo"} /\ net'.calls # net.calls)
           => net'.call.ret = Len(net.testMessage)
        /\ (Connected(net) /\ net'.call.on = "server" /\ net.c2s # <<>>)
           => /\ net'.messageReceived
              /\ net'.receivedMessage = net.testMessage
        /\ (net'.call.on = "client" /\ net'.call.name \in {"Receive", "ReceiveFrom"}
               /\ net'.calls # net.calls /\ Attached(net.transport, net.client)
               /\ net.s2c # <<>>)
           => /\ net'.call.ret = Len(net.testMessage)
              /\ BytesToString(net'.recvBuffer) = net.testMessage
      ]_vars

(***************************************************************************)
(* C29.  After Close() on a TCP socket, IsValid() is false, every later    *)
(* Send and Receive returns -1, Connect returns false and                  *)
(* WaitForDataWithTimeout returns false, with no call made on the released *)
(* descriptor; a second Close() changes nothing.                           *)
(***************************************************************************)
C29_ClosedSocketInert ==
    [][ (net.transport = "tcp" /\ net.clientClosed
            /\ net'.call.on = "client" /\ net'.calls # net.calls)
        => /\ net'.call.sys = NoId
           /\ net'.client = net.client
           /\ ~IsValid(net'.client)
           /\ net'.call.name \in {"Send", "Receive"} => net'.call.ret = -1
           /\ net'.call.name \in {"IsValid", "Connect", "WaitForDataWithTimeout"}
                 => net'.call.ret = FALSE
           /\ net'.c2s = net.c2s /\ net'.s2c = net.s2c
      ]_vars

\* A socket that had been connected and sent its message was closed, and a
\* later Send on it returned -1.
C29_Witness ==
    /\ net.transport = "tcp"
    /\ net.clientClosed
    /\ net.messageReceived
    /\ net.call.on = "client" /\ net.call.name = "Send" /\ net.call.ret = -1


(***************************************************************************)
(* C30.  No thread of the stream server ever tries to acquire the registry *)
(* mutex while it already holds it: every call to removeClient, including  *)
(* the one for an authenticated session in which it issues the "has left   *)
(* the chat" broadcast, gets past its broadcast, and the mutex is free     *)
(* afterwards.  As a state predicate: no thread is left holding            *)
(* clientsMutex, and no removeClient has ended blocked on it.              *)
(***************************************************************************)
C30_NoSelfRelock ==
    variant = "tcp" =>
        /\ mutexOwner = NoThread
        /\ op.kind = "remove" => op.target # "deadlock"


(***************************************************************************)
(* C31.  In the stream server every write of the registry or of a field of *)
(* a session is made by a thread that holds clientsMutex: a step that      *)
(* changes the registry is never taken while another thread holds the      *)
(* mutex.                                                                  *)
(***************************************************************************)
C31_RegistryWrittenUnderLock ==
    [][ (variant = "tcp" /\ clients' # clients) => mutexOwner = NoThread ]_vars


(***************************************************************************)
(* C32.  A session a reaper sweep removes is stale at the moment it is     *)
(* removed: its lastActivity is more than the threshold (300 s in the      *)
(* stream server, 120 s in the datagram server) behind the clock.  A       *)
(* session touched, or registered again, after the sweep collected it is   *)
(* not stale and is not removed.                                           *)
(***************************************************************************)
C32_EvictedIsStale ==
    [][ (/\ op'.by = "reaper"
         /\ op'.who \in DOMAIN clients
         /\ op'.who \notin DOMAIN clients')
        => now - clients[op'.who].lastActivity >
               (IF variant = "tcp" THEN TcpTimeout ELSE UdpTimeout) ]_vars


(***************************************************************************)
(* C33.  In the stream server a worker thread uses its session (a call on  *)
(* the session's socket, a read or write of its fields) only while the     *)
(* session is in the registry: once another thread has erased the session, *)
(* the worker's remaining steps are the registry look-ups that find it     *)
(* gone (the early return of handleClient, and removeClient).              *)
(***************************************************************************)
C33_NoUseAfterErase ==
    [][ (/\ variant = "tcp"
         /\ op'.by = "worker"
         /\ op'.kind \notin {"early_return", "remove"})
        => op'.who \in DOMAIN clients ]_vars


(***************************************************************************)
(* C34.  In the stream server no removeClient destroys the handle of a     *)
(* worker thread that is still joinable: no run of removeClient ends in    *)
(* the std::terminate of a joinable std::thread's destructor.  (stop()     *)
(* detaches every joinable handle before it clears the registry.)          *)
(***************************************************************************)
C34_NoJoinableHandleDestroyed ==
    [][ (variant = "tcp" /\ op'.kind = "remove") => op'.target # "terminated" ]_vars


(***************************************************************************)
(* C35.  When the reaper of either server broadcasts "<name> has timed     *)
(* out" for a session it evicts, that session has already left the         *)
(* registry and no copy of the notice is sent to it.                       *)
(***************************************************************************)
C35_EvictedBeforeNotice ==
    [][ op'.kind = "timeout_notice" =>
          /\ op'.who \notin DOMAIN clients
          /\ Copies(sent', op'.who, Stamped(op'.text)) = 0 ]_vars


(***************************************************************************)
(* Progress.  The threads of the server are scheduled: a step a thread of  *)
(* the server can take on its own, without a new payload or a connection   *)
(* from a peer, without a signal and without the clock, is eventually      *)
(* taken if it stays possible.                                             *)
(***************************************************************************)
ServerStep ==
    \/ TcpAssignHandler
    \/ \E i \in Ids : TcpEarlyReturn(i) \/ TcpJoin(i) \/ TcpLoopExit(i)
                         \/ TcpNullSocket(i) \/ TcpRemove(i)
    \/ TcpReaperCollect
    \/ \E id \in Ids : TcpReaperName(id)
    \/ TcpReaperBroadcast
    \/ TcpReaperRemove
    \/ UdpRegisterBroadcast \/ UdpQuitBroadcast \/ UdpMsgSend \/ UdpChatBroadcast
    \/ UdpReaperCollect
    \/ \E addr \in Ids : UdpReaperErase(addr)
    \/ UdpReaperBroadcast
    \/ UdpForceStop
    \/ UdpStop

LiveSpec == Spec /\ WF_vars(ServerStep)

(***************************************************************************)
(* C36.  A stream worker that waits for its client's first payload sees    *)
(* the shutdown flag: once `running` is cleared, the worker leaves its     *)
(* wait (and goes on to exit) even if the client never sends anything and  *)
(* never disconnects.                                                      *)
(***************************************************************************)
C36_FirstWaitSeesShutdown ==
    \A i \in Ids :
        (variant = "tcp" /\ proc = "up" /\ ~running /\ worker[i].pc = "auth")
            ~> (worker[i].pc # "auth")


(***************************************************************************)
(* C37.  In the stream server identities come from a counter that only     *)
(* grows, a session leaves the registry only through removeClient or       *)
(* stop(), and removal is final: an identity the counter has passed and    *)
(* that is not in the registry is not in the registry after any step.      *)
(***************************************************************************)
C37_RemovalIsFinal ==
    [][ variant = "tcp" =>
          /\ nextClientId' >= nextClientId
          /\ (DOMAIN clients \ DOMAIN clients' # {}) => op'.kind \in {"remove", "stop"}
          /\ \A id \in Ids :
                 (id < nextClientId /\ id \notin DOMAIN clients)
                     => id \notin DOMAIN clients' ]_vars


(***************************************************************************)
(* C38.  In the datagram server a registered client whose datagrams reach  *)
(* the server no more than 120 s apart is never removed by the reaper,     *)
(* however the receiver and the sweeps interleave.  Step by step: the      *)
(* reaper removes an address only if its sweep collected it, and a sweep   *)
(* collects an address only when the clock is more than 120 s past the     *)
(* address's lastActivity, which a client with such datagrams never lets   *)
(* happen.                                                                 *)
(***************************************************************************)
C38_TimelyNeverEvicted ==
    [][ variant = "udp" =>
          /\ \A a \in reaper'.toRemove \ reaper.toRemove :
                 /\ a \in DOMAIN clients
                 /\ now - clients[a].lastActivity > UdpTimeout
          /\ \A a \in DOMAIN clients \ DOMAIN clients' :
                 op'.by = "reaper" => a \in reaper.toRemove ]_vars

\* The reaper has just removed a stale address while another client, whose
\* last datagram before this one's threshold ran out came one threshold
\* after the start, is still registered.
C38_Witness ==
    /\ variant = "udp"
    /\ op.kind = "evict" /\ op.ret
    /\ \E a \in DOMAIN clients :
           /\ clients[a].lastActivity > 0
           /\ now - clients[a].lastActivity = UdpTimeout


(***************************************************************************)
(* The sends a step makes inside the scope of a lock_guard on              *)
(* clientsMutex.  broadcastMessage and sendPrivateMessage of both servers  *)
(* take the lock in their first statement and keep it to their return, so  *)
(* every Send or SendTo of their loops is made with the mutex held; the    *)
(* welcome, the user list and the error notices are sent outside it.       *)
(***************************************************************************)
LockedSends(o, bag) ==
    CASE o.kind \in {"broadcast", "timeout_notice", "sigpipe"} ->
             {e \in BagToSet(bag) : e[2] = BroadcastLine(o.text)}
      [] o.kind = "remove" -> BagToSet(bag)
      [] o.kind = "private" /\ o.ret -> BagToSet(bag)
      [] OTHER -> {}

(***************************************************************************)
(* C39.  No step of either server hands a line to Send or SendTo while its *)
(* thread holds clientsMutex: broadcasts and private deliveries send after *)
(* the lock is released.                                                   *)
(***************************************************************************)
C39_NoSendUnderLock ==
    [][ LockedSends(op', sent') = {} ]_vars


(***************************************************************************)
(* C40.  Every "has timed out" notice the reaper of either server          *)
(* broadcasts is about a session that was authenticated and carries that   *)
(* session's display name, which is not empty: a stream connection that    *)
(* idles without ever sending a name is evicted without a broadcast.       *)
(***************************************************************************)
C40_TimeoutNoticeNamed ==
    [][ op'.kind = "timeout_notice" =>
          /\ op'.target # <<>>
          /\ op'.text = op'.target \o <<" has timed out">>
          /\ (variant = "tcp" /\ op'.who \in DOMAIN clients)
                 => clients[op'.who].authenticated ]_vars

=============================================================================
